---- MODULE Spec2Model ----
(***************************************************************************)
(* livetunnel: the run of main() -- App::new (configuration, directory    *)
(* check, pre-connection commands, SSH connect), App::run (port forward,   *)
(* miniserve spawn, monitor loop) and App::close (session close, kill and  *)
(* wait on miniserve) -- together with the Ctrl-C handler and the two      *)
(* things that fail on their own: the SSH session and the miniserve        *)
(* process.                                                                *)
(*                                                                         *)
(* Every blocking call of the program is one action: the call and its      *)
(* result are taken in one step, and the result is drawn from the          *)
(* outcomes the call can have.                                             *)
(***************************************************************************)
EXTENDS Integers, Sequences, FiniteSets

VARIABLES
    pc,            \* position of the main thread
    config,        \* Config: host, local_port, remote_port, num_cmds
    cmd_log,       \* pre-connection commands attempted by new(): <<index, outcome>>
    log,           \* blocking calls made on the session and on miniserve: <<call, result>>
    should_end,    \* the AtomicBool shared with the Ctrl-C handler
    sigint,        \* the Ctrl-C handler has run at least once
    end_set_in,    \* phase of the main thread when should_end first became true
    session,       \* "none" | "connected" | "closed"
    sess_alive,    \* the SSH master connection is up
    proc_os,       \* miniserve as the OS sees it: "none" | "running" | "zombie" | "reaped"
    exit_status,   \* how miniserve ended: "none" | "ok" | "err" | "killed"
    child_status,  \* exit status cached in the Child handle: "none" | "ok" | "err"
    reapable,      \* the OS lets this process wait on its child
    last_poll,     \* result of the latest try_wait
    pb_forward,    \* what the forward progress line shows
    pb_serve,      \* what the serve progress line shows
    reap_result,   \* what close reported for miniserve: "none" | "ok" | "err"
    secure,        \* cli.secure
    dir_missing,   \* cli.directory was given and does not exist
    hasher,        \* add_users: what the Sha512 hasher has absorbed
    cur_entry,     \* add_users: the <<username, password>> just typed
    new_users,     \* add_users: the Vec it is building
    miniserve_args, \* the -a parameters given to miniserve
    sleeps_after_set \* sleeps of the monitor loop begun with should_end set

vars == <<pc, config, cmd_log, log, should_end, sigint, session,
          sess_alive, proc_os, exit_status, child_status, reapable,
          last_poll, pb_forward, pb_serve, reap_result, end_set_in,
          secure, dir_missing, hasher, cur_entry, new_users, miniserve_args,
          sleeps_after_set>>

\* The state that the steps of new(), of the monitor loop and of close()
\* leave alone.
aux == <<secure, dir_missing, hasher, cur_entry, new_users, miniserve_args,
         sleeps_after_set>>

(***************************************************************************)
(* Bounds of the model.                                                    *)
(***************************************************************************)
MaxCmds == 3
MaxUsers == 2

(***************************************************************************)
(* Configuration.                                                          *)
(***************************************************************************)
MaxU16 == 65535

\* What an operator types at a port prompt, or a file holds in a port field.
PortInputs == {-1, 0, MaxU16, MaxU16 + 1}

HostInputs == {"", "example.org"}

\* <u16 as FromStr>::from_str / serde's u16: the number, or -1 for Err.
ParseU16(raw) == IF raw >= 0 /\ raw <= MaxU16 THEN raw ELSE -1

\* Config::default(): what the state holds before a configuration exists.
DefaultConfig ==
    [host |-> "", local_port |-> 0, remote_port |-> 0, num_cmds |-> 0,
     users |-> <<>>]

\* What an operator types at the username and password prompts (both are
\* required to be non-empty).
Usernames == {"a", "b"}
Passwords == {"p", "q"}

SeqsUpTo(S, n) == UNION {[1..k -> S] : k \in 0..n}

\* Sha512::new(), update(data), format!("{:x}", finalize...()): the hasher
\* holds the bytes absorbed so far, and the digest stands for exactly those
\* bytes (no two inputs share a digest).
NewHasher == ""
HasherUpdate(h, data) == h \o data
HasherHex(h) == "h(" \o h \o ")"

\* Variant: finalize leaves what was absorbed in the hasher.
HasherKeptAfterFinalize(h) == h

\* finalize_reset(): the hasher is as new afterwards.
HasherAfterFinalizeReset(h) == NewHasher

\* build_config, lines 518-532: a new hasher for every user.
WizardEntry(user, password) ==
    <<user, HasherHex(HasherUpdate(NewHasher, password))>>

\* build_config, lines 511-543: no users, or one and more while the
\* operator asks for another.
WizardUsers ==
    SeqsUpTo({WizardEntry(u, pw) : u \in Usernames, pw \in Passwords}, MaxUsers)

\* build_config: a prompt repeats until its validator / parser accepts the
\* answer, so the wizard returns exactly for the accepted answers.
WizardAccepts(host, remote_raw, local_raw) ==
    /\ host # ""
    /\ ParseU16(remote_raw) # -1
    /\ ParseU16(local_raw) # -1

BuildConfig(host, remote_raw, local_raw, n, users) ==
    [host |-> host, local_port |-> ParseU16(local_raw),
     remote_port |-> ParseU16(remote_raw), num_cmds |-> n, users |-> users]

WizardConfigs ==
    { BuildConfig(h, r, l, n, us) :
        h \in {x \in HostInputs : x # ""},
        r \in {x \in PortInputs : ParseU16(x) # -1},
        l \in {x \in PortInputs : ParseU16(x) # -1},
        n \in 0..MaxCmds,
        us \in WizardUsers }

\* confy::load: deserialization fails on a port that is no u16.
FileLoads(remote_raw, local_raw) ==
    ParseU16(remote_raw) # -1 /\ ParseU16(local_raw) # -1

(***************************************************************************)
(* Where control goes after each call, by its result.                      *)
(***************************************************************************)
\* Variant: a failed command ends the loop (break where the code continues).
NextCmdPcAbortOnFailure(outcome, done, n) ==
    IF outcome # "ok" THEN "connect"
    ELSE IF done < n THEN "precmds" ELSE "connect"

\* for (i, cmd) in commands.iter().enumerate(): both failure branches
\* `continue`, the success branch falls through to the next iteration.
NextCmdPc(outcome, done, n) == IF done < n THEN "precmds" ELSE "connect"

\* Variant: a missing directory is not looked at.
AfterDirCheckIgnoringMissing(dir, n) == NextCmdPc("ok", 0, n)

\* if dir.exists() { dir } else { exit(1) }; no directory given: the cwd.
AfterDirCheck(dir, n) ==
    IF dir = "missing" THEN "exited" ELSE NextCmdPc("ok", 0, n)

\* Variant: a configuration with an empty host is used as it is.
NeedsWizardNever(cfg) == FALSE

\* if config.host.is_empty() { config = build_config() }
NeedsWizard(cfg) == cfg.host = ""

\* Variant: a failed connect is reported and the run goes on.
AfterConnectIgnoringError(res) == "users_gate"

\* Ok: new() returns the App and main calls run(), which starts at the
\* secure-mode gate.
AfterConnect(res) == IF res = "ok" THEN "users_gate" ELSE "panicked"

\* Variant: with no users the operator is only offered to add some.
MustCollectNever(sec, users) == FALSE

\* if self.cli.secure { if self.config.users.is_empty() { add_users() } ...
MustCollect(sec, users) == sec /\ users = <<>>

\* Variant: the -a parameters are passed whatever cli.secure is.
SpawnAuthArgsAlways(sec, users) ==
    [i \in 1..Len(users) |-> users[i][1] \o ":sha512:" \o users[i][2]]

\* if self.cli.secure { for (user, pw) in &self.config.users { args(-a ...) } }
SpawnAuthArgs(sec, users) ==
    IF sec
    THEN [i \in 1..Len(users) |-> users[i][1] \o ":sha512:" \o users[i][2]]
    ELSE <<>>

\* Variant: the flag is looked at after the forward request.
AfterForwardCheckingFlag(res) ==
    IF should_end THEN "close_enter"
    ELSE IF res = "ok" THEN "spawn" ELSE "panicked"

AfterForward(res) == IF res = "ok" THEN "spawn" ELSE "panicked"

\* Variant: a failed spawn is reported and the monitor loop is entered.
AfterSpawnIgnoringError(res) == "mon_check"

AfterSpawn(res) == IF res = "ok" THEN "mon_check" ELSE "panicked"

\* Variant: a dead session flips the flag.
CheckTogglesFlag(res, flag) == IF res = "err" THEN ~flag ELSE flag

\* Variant: the result of the check is stored, true or false.
CheckStoresResult(res, flag) == (res = "err")

\* session.check().is_err() stores true into should_end.
CheckMarksEnd(res, flag) == IF res = "err" THEN TRUE ELSE flag

\* Variant: a dead session returns from the loop at once.
AfterCheckDeadReturns(res) == IF res = "err" THEN "close_enter" ELSE "mon_poll"

\* Lines 330-338: neither outcome of the check leaves the loop; the poll of
\* miniserve follows.
AfterCheck(res) == "mon_poll"

BadPolls == {"exited_ok", "exited_err", "poll_err"}

\* Variant: an exit of miniserve, or a failed poll, starts shutdown.
AfterPollExitFatal(res) == IF res \in BadPolls THEN "close_enter" ELSE "mon_flag"

\* Variant: every exit is shown as a warning.
ServeWarningOnAnyExit(res, shown) ==
    CASE res \in {"exited_ok", "exited_err"} -> "warn_exited"
      [] res = "poll_err"   -> "warn_died"
      [] OTHER              -> shown

\* The serve line after a poll: a warning for an exit whose status is not
\* success, a warning for a poll error, otherwise what it showed before.
ServeWarning(res, shown) ==
    CASE res = "exited_err" -> "warn_exited"
      [] res = "poll_err"   -> "warn_died"
      [] OTHER              -> shown

\* Neither arm of the try_wait match leaves the loop.
AfterPoll(res) == "mon_flag"

\* Variant: the return is missing.
AfterFlagAlwaysSleeps(flag) == "mon_sleep"

\* if should_end.load() { return miniserve_handle } else sleep.
AfterFlag(flag) == IF flag THEN "close_enter" ELSE "mon_sleep"

\* Variant: kill and wait first, then the session close.
CloseSeqProcessFirst(step) ==
    CASE step = "close_enter" -> "close_kill"
      [] step = "close_kill"  -> "close_wait"
      [] step = "close_wait"  -> "close_ssh"
      [] step = "close_ssh"   -> "closed"

\* The order of close(): session close, then kill, then wait.
CloseSeq(step) ==
    CASE step = "close_enter" -> "close_ssh"
      [] step = "close_ssh"   -> "close_kill"
      [] step = "close_kill"  -> "close_wait"
      [] step = "close_wait"  -> "closed"

\* self.session.close() ... .unwrap()
AfterSessionClose(res) == IF res = "ok" THEN CloseSeq("close_ssh") ELSE "panicked"

\* Variant: kill().unwrap().
AfterKillUnwrap(res) == IF res = "ok" THEN CloseSeq("close_kill") ELSE "panicked"

\* if miniserve_handle.kill().is_ok() { } : the result is dropped.
AfterKill(res) == CloseSeq("close_kill")

\* The wait result decides only which message is shown.
ReapReport(res) == res

MonitorPcs == {"mon_check", "mon_poll", "mon_flag", "mon_sleep"}
Monitoring == pc \in MonitorPcs
ClosePcs   == {"close_enter", "close_ssh", "close_kill", "close_wait"}
Closing    == pc \in ClosePcs
Phase(p)   == IF p \in MonitorPcs THEN "monitor"
              ELSE IF p \in ClosePcs THEN "close" ELSE "setup"
RunEnded   == pc \in {"closed", "panicked", "exited"}

\* new() is running, has just returned, or has ended the run.
InNew ==
    \/ pc \in {"new", "host_check", "dir_check", "precmds", "connect", "users_gate"}
    \/ pc \in {"panicked", "exited"} /\ Len(log) <= 1

(***************************************************************************)
(* Initial state: main() has parsed the command line and installed the     *)
(* Ctrl-C handler.                                                         *)
(***************************************************************************)
Init ==
    /\ pc = "new"
    /\ config = DefaultConfig
    /\ cmd_log = <<>>
    /\ log = <<>>
    /\ should_end = FALSE
    /\ sigint = FALSE
    /\ end_set_in = "none"
    /\ session = "none"
    /\ sess_alive = FALSE
    /\ proc_os = "none"
    /\ exit_status = "none"
    /\ child_status = "none"
    /\ reapable = TRUE
    /\ last_poll = "none"
    /\ pb_forward = "none"
    /\ pb_serve = "none"
    /\ reap_result = "none"
    /\ secure \in BOOLEAN
    /\ dir_missing = FALSE
    /\ hasher = NewHasher
    /\ cur_entry = <<>>
    /\ new_users = <<>>
    /\ miniserve_args = <<>>
    /\ sleeps_after_set = 0

(***************************************************************************)
(* App::new                                                                *)
(***************************************************************************)
\* Lines 90-97: the wizard, or the persisted file.
LoadOrBuild ==
    /\ pc = "new"
    /\ \E reconfigure \in BOOLEAN, path_err \in BOOLEAN :
         IF reconfigure \/ path_err
         THEN /\ \E c \in WizardConfigs : config' = c
              /\ pc' = "host_check"
         ELSE \E h \in HostInputs, r \in PortInputs, l \in PortInputs,
                 n \in 0..MaxCmds, us \in WizardUsers :
                IF FileLoads(r, l)
                THEN /\ config' = BuildConfig(h, r, l, n, us)
                     /\ pc' = "host_check"
                ELSE /\ config' = config
                     /\ pc' = "panicked"
    /\ UNCHANGED <<cmd_log, log, should_end, sigint, session,
                   sess_alive, proc_os, exit_status, child_status, reapable,
                   last_poll, pb_forward, pb_serve, reap_result, end_set_in, aux>>

\* Lines 99-102: an empty host sends the operator through the wizard.
HostCheck ==
    /\ pc = "host_check"
    /\ IF NeedsWizard(config)
       THEN \E c \in WizardConfigs : config' = c
       ELSE config' = config
    /\ pc' = "dir_check"
    /\ UNCHANGED <<cmd_log, log, should_end, sigint, session,
                   sess_alive, proc_os, exit_status, child_status, reapable,
                   last_poll, pb_forward, pb_serve, reap_result, end_set_in, aux>>

\* Lines 104-113: a directory that was given and does not exist ends the run.
DirCheck ==
    /\ pc = "dir_check"
    /\ \E dir \in {"not_given", "exists", "missing"} :
         /\ dir_missing' = (dir = "missing")
         /\ pc' = AfterDirCheck(dir, config.num_cmds)
    /\ UNCHANGED <<config, cmd_log, log, should_end, sigint, session,
                   sess_alive, proc_os, exit_status, child_status, reapable,
                   last_poll, pb_forward, pb_serve, reap_result, end_set_in,
                   secure, hasher, cur_entry, new_users, miniserve_args,
                   sleeps_after_set>>

\* Lines 142-199: one iteration of the loop over before_commands.
RunCommand ==
    /\ pc = "precmds"
    /\ \E outcome \in {"launch_err", "nonzero", "ok"} :
         /\ cmd_log' = Append(cmd_log, <<Len(cmd_log) + 1, outcome>>)
         /\ pc' = NextCmdPc(outcome, Len(cmd_log) + 1, config.num_cmds)
    /\ UNCHANGED <<config, log, should_end, sigint, session,
                   sess_alive, proc_os, exit_status, child_status, reapable,
                   last_poll, pb_forward, pb_serve, reap_result, end_set_in, aux>>

\* Lines 207-210: connect, or panic.
Connect ==
    /\ pc = "connect"
    /\ \E res \in {"ok", "err"} :
         /\ log' = Append(log, <<"connect", res>>)
         /\ session' = IF res = "ok" THEN "connected" ELSE session
         /\ sess_alive' = (res = "ok")
         /\ pc' = AfterConnect(res)
    /\ UNCHANGED <<config, cmd_log, should_end, sigint,
                   proc_os, exit_status, child_status, reapable,
                   last_poll, pb_forward, pb_serve, reap_result, end_set_in, aux>>

(***************************************************************************)
(* App::run                                                                *)
(***************************************************************************)
\* Lines 230-246: in secure mode, users must be added when there are none,
\* and may be added when there are some. new() has returned: what its
\* command loop did is kept no longer.
UsersGate ==
    /\ pc = "users_gate"
    /\ cmd_log' = <<>>
    /\ IF ~secure
       THEN pc' = "forward"
       ELSE IF MustCollect(secure, config.users)
            THEN pc' = "add_user_prompt"
            ELSE \E add_users \in {a \in BOOLEAN : a => Len(config.users) < MaxUsers} :
                   pc' = IF add_users THEN "add_user_prompt" ELSE "forward"
    /\ UNCHANGED <<config, log, should_end, sigint, session,
                   sess_alive, proc_os, exit_status, child_status, reapable,
                   last_poll, pb_forward, pb_serve, reap_result, end_set_in, aux>>

\* add_users, lines 643-653: the two prompts, and hasher.update(password).
AddUserPrompt ==
    /\ pc = "add_user_prompt"
    /\ \E user \in Usernames, password \in Passwords :
         /\ cur_entry' = <<user, password>>
         /\ hasher' = HasherUpdate(hasher, password)
    /\ pc' = "add_user_push"
    /\ UNCHANGED <<config, cmd_log, log, should_end, sigint, session,
                   sess_alive, proc_os, exit_status, child_status, reapable,
                   last_poll, pb_forward, pb_serve, reap_result, end_set_in,
                   secure, dir_missing, new_users, miniserve_args,
                   sleeps_after_set>>

\* add_users, lines 654-666, and lines 233 and 241-242 of run: the push of
\* (user, digest), the question for another user, and at the end of the
\* loop the Vec is assigned to the empty config.users or appended to it.
AddUserPush ==
    /\ pc = "add_user_push"
    /\ LET pushed == Append(new_users, <<cur_entry[1], HasherHex(hasher)>>) IN
         \E another \in {a \in BOOLEAN :
                            a => Len(config.users) + Len(pushed) < MaxUsers} :
           IF another
           THEN /\ new_users' = pushed
                /\ hasher' = HasherAfterFinalizeReset(hasher)
                /\ config' = config
                /\ pc' = "add_user_prompt"
           ELSE /\ new_users' = <<>>
                /\ hasher' = NewHasher
                /\ config' = [config EXCEPT !.users = config.users \o pushed]
                /\ pc' = "forward"
    /\ cur_entry' = <<>>
    /\ UNCHANGED <<cmd_log, log, should_end, sigint, session,
                   sess_alive, proc_os, exit_status, child_status, reapable,
                   last_poll, pb_forward, pb_serve, reap_result, end_set_in,
                   secure, dir_missing, miniserve_args, sleeps_after_set>>

\* Lines 264-270: request_port_forward(...).unwrap(). A request can succeed
\* only over a live master connection.
Forward ==
    /\ pc = "forward"
    /\ \E res \in (IF session = "connected" /\ sess_alive THEN {"ok", "err"} ELSE {"err"}) :
         /\ log' = Append(log, <<"forward", res>>)
         /\ pb_forward' = IF res = "ok" THEN "forwarding" ELSE pb_forward
         /\ pc' = AfterForward(res)
    /\ UNCHANGED <<config, cmd_log, should_end, sigint, session,
                   sess_alive, proc_os, exit_status, child_status, reapable,
                   last_poll, pb_serve, reap_result, end_set_in, aux>>

\* Lines 295-318: spawn miniserve, or panic.
Spawn ==
    /\ pc = "spawn"
    /\ \E res \in {"ok", "err"}, r \in BOOLEAN :
         /\ log' = Append(log, <<"spawn", res>>)
         /\ proc_os' = IF res = "ok" THEN "running" ELSE proc_os
         /\ reapable' = IF res = "ok" THEN r ELSE reapable
         /\ pb_serve' = IF res = "ok" THEN "serving" ELSE pb_serve
         /\ pc' = AfterSpawn(res)
    /\ miniserve_args' = SpawnAuthArgs(secure, config.users)
    /\ UNCHANGED <<config, cmd_log, should_end, sigint, session,
                   sess_alive, exit_status, child_status,
                   last_poll, pb_forward, reap_result, end_set_in,
                   secure, dir_missing, hasher, cur_entry, new_users,
                   sleeps_after_set>>

\* Lines 330-336: the liveness check of the session.
MonCheck ==
    /\ pc = "mon_check"
    /\ LET res == IF sess_alive THEN "ok" ELSE "err" IN
         /\ should_end' = CheckMarksEnd(res, should_end)
         /\ end_set_in' = IF ~should_end /\ should_end' THEN Phase(pc) ELSE end_set_in
         /\ pb_forward' = IF res = "err" THEN "warn_died" ELSE pb_forward
         /\ pc' = AfterCheck(res)
    /\ UNCHANGED <<config, cmd_log, log, sigint, session,
                   sess_alive, proc_os, exit_status, child_status, reapable,
                   last_poll, pb_serve, reap_result, aux>>

\* Child::try_wait: a cached status is returned as is; otherwise waitpid
\* with WNOHANG, which reaps a zombie and caches its status.
TryWait ==
    IF child_status # "none" THEN "exited_" \o child_status
    ELSE IF ~reapable THEN "poll_err"
    ELSE IF proc_os = "zombie"
         THEN "exited_" \o (IF exit_status = "ok" THEN "ok" ELSE "err")
         ELSE "running"

\* Lines 338-355: the poll of miniserve.
MonPoll ==
    /\ pc = "mon_poll"
    /\ LET res == TryWait IN
         /\ last_poll' = res
         /\ IF child_status = "none" /\ reapable /\ proc_os = "zombie"
            THEN /\ proc_os' = "reaped"
                 /\ child_status' = IF exit_status = "ok" THEN "ok" ELSE "err"
            ELSE UNCHANGED <<proc_os, child_status>>
         /\ pb_serve' = ServeWarning(res, pb_serve)
         /\ pc' = AfterPoll(res)
    /\ UNCHANGED <<config, cmd_log, log, should_end, sigint, session,
                   sess_alive, exit_status, reapable,
                   pb_forward, reap_result, end_set_in, aux>>

\* Lines 357-369: the read of the flag.
MonFlag ==
    /\ pc = "mon_flag"
    /\ pc' = AfterFlag(should_end)
    /\ UNCHANGED <<config, cmd_log, log, should_end, sigint, session,
                   sess_alive, proc_os, exit_status, child_status, reapable,
                   last_poll, pb_forward, pb_serve, reap_result, end_set_in, aux>>

\* Line 371: sleep one second, then the next iteration.
MonSleep ==
    /\ pc = "mon_sleep"
    /\ sleeps_after_set' = IF should_end THEN sleeps_after_set + 1
                           ELSE sleeps_after_set
    /\ pc' = "mon_check"
    /\ UNCHANGED <<config, cmd_log, log, should_end, sigint, session,
                   sess_alive, proc_os, exit_status, child_status, reapable,
                   last_poll, pb_forward, pb_serve, reap_result, end_set_in,
                   secure, dir_missing, hasher, cur_entry, new_users,
                   miniserve_args>>

(***************************************************************************)
(* App::close                                                              *)
(***************************************************************************)
\* Lines 376-386: main hands the handle run() returned to close().
CloseEnter ==
    /\ pc = "close_enter"
    /\ pc' = CloseSeq("close_enter")
    /\ UNCHANGED <<config, cmd_log, log, should_end, sigint, session,
                   sess_alive, proc_os, exit_status, child_status, reapable,
                   last_poll, pb_forward, pb_serve, reap_result, end_set_in, aux>>

\* Line 388: session.close().unwrap().
CloseSession ==
    /\ pc = "close_ssh"
    /\ \E res \in {"ok", "err"} :
         /\ log' = Append(log, <<"close", res>>)
         /\ session' = IF res = "ok" THEN "closed" ELSE session
         /\ sess_alive' = IF res = "ok" THEN FALSE ELSE sess_alive
         /\ pc' = AfterSessionClose(res)
    /\ UNCHANGED <<config, cmd_log, should_end, sigint,
                   proc_os, exit_status, child_status, reapable,
                   last_poll, pb_forward, pb_serve, reap_result, end_set_in, aux>>

\* Child::kill: with a cached status no signal is sent, and the result is
\* Ok or Err(InvalidInput) by the version of std; otherwise SIGKILL is sent.
KillResults == IF child_status # "none" THEN {"ok", "err"} ELSE {"ok"}

\* Lines 398-402.
CloseKill ==
    /\ pc = "close_kill"
    /\ \E res \in KillResults :
         /\ log' = Append(log, <<"kill", res>>)
         /\ IF child_status = "none" /\ proc_os = "running"
            THEN /\ proc_os' = "zombie"
                 /\ exit_status' = "killed"
            ELSE UNCHANGED <<proc_os, exit_status>>
         /\ pc' = AfterKill(res)
    /\ UNCHANGED <<config, cmd_log, should_end, sigint, session,
                   sess_alive, child_status, reapable,
                   last_poll, pb_forward, pb_serve, reap_result, end_set_in, aux>>

\* Child::wait: a cached status is returned as is; otherwise waitpid, which
\* blocks until the child is a zombie and reaps it.
WaitResult == IF child_status # "none" \/ reapable THEN "ok" ELSE "err"

\* Lines 404-412.
CloseWait ==
    /\ pc = "close_wait"
    /\ child_status # "none" \/ ~reapable \/ proc_os = "zombie"
    /\ LET res == WaitResult IN
         /\ log' = Append(log, <<"wait", res>>)
         /\ reap_result' = ReapReport(res)
         /\ IF child_status = "none" /\ reapable
            THEN /\ proc_os' = "reaped"
                 /\ child_status' = IF exit_status = "ok" THEN "ok" ELSE "err"
            ELSE UNCHANGED <<proc_os, child_status>>
    /\ pc' = CloseSeq("close_wait")
    /\ UNCHANGED <<config, cmd_log, should_end, sigint, session,
                   sess_alive, exit_status, reapable,
                   last_poll, pb_forward, pb_serve, end_set_in, aux>>

(***************************************************************************)
(* The environment.                                                        *)
(***************************************************************************)
\* main.rs lines 39-42: the handler stores true.
CtrlC ==
    /\ ~RunEnded
    /\ should_end' = TRUE
    /\ sigint' = TRUE
    /\ end_set_in' = IF ~should_end THEN Phase(pc) ELSE end_set_in
    /\ UNCHANGED <<pc, config, cmd_log, log, session,
                   sess_alive, proc_os, exit_status, child_status, reapable,
                   last_poll, pb_forward, pb_serve, reap_result, aux>>

\* The SSH master connection is lost.
SessionDies ==
    /\ ~RunEnded
    /\ session = "connected"
    /\ sess_alive
    /\ sess_alive' = FALSE
    /\ UNCHANGED <<pc, config, cmd_log, log, should_end, sigint, session,
                   proc_os, exit_status, child_status, reapable,
                   last_poll, pb_forward, pb_serve, reap_result, end_set_in, aux>>

\* miniserve ends on its own, with success or not.
ProcExits ==
    /\ ~RunEnded
    /\ proc_os = "running"
    /\ \E st \in {"ok", "err"} : exit_status' = st
    /\ proc_os' = "zombie"
    /\ UNCHANGED <<pc, config, cmd_log, log, should_end, sigint, session,
                   sess_alive, child_status, reapable,
                   last_poll, pb_forward, pb_serve, reap_result, end_set_in, aux>>

Next ==
    \/ LoadOrBuild
    \/ HostCheck
    \/ DirCheck
    \/ RunCommand
    \/ Connect
    \/ UsersGate
    \/ AddUserPrompt
    \/ AddUserPush
    \/ Forward
    \/ Spawn
    \/ MonCheck
    \/ MonPoll
    \/ MonFlag
    \/ MonSleep
    \/ CloseEnter
    \/ CloseSession
    \/ CloseKill
    \/ CloseWait
    \/ CtrlC
    \/ SessionDies
    \/ ProcExits

Spec == Init /\ [][Next]_vars

(***************************************************************************)
(* Reading the call log.                                                   *)
(***************************************************************************)
Calls(c)   == {i \in 1..Len(log) : log[i][1] = c}
OkCalls(c) == {i \in 1..Len(log) : log[i] = <<c, "ok">>}
SetupCalls == {"connect", "forward", "spawn"}

C2_ShutdownAlwaysCompletes ==
    (Calls("close") # {} /\ RunEnded) =>
        /\ pc = "closed"
        /\ Calls("kill") # {}
        /\ Calls("wait") # {}

(***************************************************************************)
(* C3: once the liveness check has found the session dead, the loop is     *)
(* left in that same iteration (no sleep, no further check), and the run,  *)
(* with Ctrl-C never delivered, ends in Closed.                            *)
(***************************************************************************)
C3_DeadSessionReachesClosed ==
    /\ pb_forward = "warn_died" => pc \notin {"mon_sleep", "mon_check"}
    /\ (pb_forward = "warn_died" /\ ~sigint /\ RunEnded) => pc = "closed"

(***************************************************************************)
(* C4: a run whose flag was set while miniserve was being monitored ends   *)
(* with the loop left, miniserve reaped and the session closed (stated for *)
(* the runs in which the OS lets the process wait on its child).           *)
(***************************************************************************)
C4_CancelReapsAndCloses ==
    (end_set_in = "monitor" /\ reapable /\ RunEnded) =>
        /\ pc = "closed"
        /\ proc_os = "reaped"
        /\ child_status # "none"
        /\ session = "closed"

(***************************************************************************)
(* C5: a port forward is requested only after a connect that succeeded,    *)
(* miniserve is spawned only after a forward request that succeeded; no    *)
(* miniserve exists without a successful forward, and no forward is        *)
(* requested without a session.                                            *)
(***************************************************************************)
C5_SetupOrder ==
    /\ \A j \in Calls("forward") : \E i \in OkCalls("connect") : i < j
    /\ \A j \in Calls("spawn") : \E i \in OkCalls("forward") : i < j
    /\ proc_os # "none" => OkCalls("forward") # {}
    /\ Calls("forward") # {} => session # "none"

C5_Witness ==
    /\ OkCalls("spawn") # {}
    /\ proc_os = "running"

(***************************************************************************)
(* C6: a failed connect, forward request or spawn is the last call of the  *)
(* run, which ends there without entering the monitor loop; and each of    *)
(* the three is attempted at most once.                                    *)
(***************************************************************************)
C6_SetupFailureFatal ==
    /\ \A i \in 1..Len(log) :
          (log[i][1] \in SetupCalls /\ log[i][2] = "err") =>
              /\ i = Len(log)
              /\ pc = "panicked"
              /\ last_poll = "none"
              /\ \A c \in SetupCalls : Cardinality(Calls(c)) <= 1
    /\ (~Monitoring /\ ~Closing /\ pc # "closed") \/ OkCalls("spawn") # {}

C6_Witness ==
    /\ pc = "panicked"
    /\ Len(log) = 2
    /\ log[2] = <<"forward", "err">>
    /\ proc_os = "none"

(***************************************************************************)
(* C7: the pre-connection commands are attempted once each, in list order, *)
(* whatever their outcomes; connect is attempted only after all of them,   *)
(* no run ends between the first command and the connect attempt, and no   *)
(* command is run once new() has returned.                                 *)
(***************************************************************************)
C7_AllCommandsAttempted ==
    /\ \A k \in 1..Len(cmd_log) : cmd_log[k][1] = k
    /\ Len(cmd_log) <= config.num_cmds
    /\ pc = "precmds" => Len(cmd_log) < config.num_cmds
    /\ (pc = "connect" \/ (Calls("connect") # {} /\ InNew))
          => Len(cmd_log) = config.num_cmds
    /\ (cmd_log # <<>> /\ RunEnded) => Calls("connect") # {}
    /\ ~InNew => cmd_log = <<>>

C7_Witness ==
    /\ Len(cmd_log) = 3
    /\ cmd_log[1][2] = "launch_err"
    /\ cmd_log[2][2] = "nonzero"
    /\ cmd_log[3][2] = "ok"
    /\ OkCalls("connect") # {}

(***************************************************************************)
(* C8: while the flag is unset, a poll that finds miniserve exited (with   *)
(* any status) or that fails leaves the run in the monitor loop, with no   *)
(* call made on the session or on miniserve; and miniserve is spawned at   *)
(* most once per run.                                                      *)
(***************************************************************************)
C8_ProcessExitKeepsMonitoring ==
    /\ [][(Monitoring /\ last_poll \in BadPolls /\ ~should_end)
             => (Monitoring' /\ log' = log)]_vars
    /\ [][(pc = "mon_poll" /\ last_poll' \in BadPolls /\ ~should_end)
             => (Monitoring' /\ log' = log)]_vars
    /\ [](Cardinality(Calls("spawn")) <= 1)

C8_Witness ==
    /\ pc = "mon_check"
    /\ last_poll = "exited_err"
    /\ sess_alive
    /\ ~should_end

(***************************************************************************)
(* C9: when miniserve has exited on its own (observed by a poll or not)    *)
(* and the OS lets the process wait on its child, the kill-and-wait step   *)
(* reports success and the run ends in Closed with miniserve reaped, as it *)
(* does for a miniserve that was still running.                            *)
(***************************************************************************)
C9_ReapAfterOwnExit ==
    (exit_status \in {"ok", "err"} /\ reapable /\ session = "closed" /\ RunEnded) =>
        /\ pc = "closed"
        /\ reap_result = "ok"
        /\ proc_os = "reaped"

C9_Witness ==
    /\ pc = "closed"
    /\ exit_status = "ok"
    /\ last_poll = "exited_ok"
    /\ \E i \in 1..Len(log) : log[i] = <<"kill", "err">>
    /\ reap_result = "ok"

(***************************************************************************)
(* C10: every configuration the run works with has local_port and          *)
(* remote_port in 1..65535.                                                *)
(***************************************************************************)
C10_PortsInRange ==
    (config.host # "" /\ pc \notin {"new", "host_check"}) =>
        /\ config.local_port \in 1..MaxU16
        /\ config.remote_port \in 1..MaxU16

(***************************************************************************)
(* Reading the credentials.                                                *)
(***************************************************************************)
AuthParam(entry) == entry[1] \o ":sha512:" \o entry[2]
DigestOf(password) == HasherHex(HasherUpdate(NewHasher, password))

\* A step of the main thread (the handler moves neither).
CoreStep == pc' # pc \/ cmd_log' # cmd_log

(***************************************************************************)
(* C11: in secure mode miniserve is never spawned with an empty credential *)
(* list; credentials are collected only between the return of new() and    *)
(* the forward request, and the list does not change afterwards.           *)
(***************************************************************************)
C11_SecureSpawnHasCredentials ==
    /\ []((secure /\ Calls("spawn") # {}) =>
             (config.users # <<>> /\ miniserve_args # <<>>))
    /\ [](pc \in {"add_user_prompt", "add_user_push"} =>
             (log = <<<<"connect", "ok">>>> /\ proc_os = "none"))
    /\ [][Calls("forward") # {} => config'.users = config.users]_vars

C11_Witness ==
    /\ secure
    /\ pc = "add_user_push"
    /\ config.users = <<>>
    /\ new_users = <<>>

(***************************************************************************)
(* C12 (as stated): no step of the main thread changes the flag.           *)
(***************************************************************************)
C12_CoreNeverWritesFlag ==
    [][CoreStep => should_end' = should_end]_vars

(***************************************************************************)
(* C12 (amended): the only step of the main thread that changes the flag   *)
(* is the liveness check that finds the session dead, and it sets it to    *)
(* true; no step of setup, no other step of the monitor loop and no step   *)
(* of shutdown changes it.                                                 *)
(***************************************************************************)
C12_CoreWritesFlagOnlyOnDeadSession ==
    [][CoreStep =>
         \/ should_end' = should_end
         \/ pc = "mon_check" /\ ~sess_alive /\ should_end']_vars

C12_Witness ==
    /\ should_end
    /\ ~sigint
    /\ pb_forward = "warn_died"
    /\ pc = "mon_poll"

(***************************************************************************)
(* C13: no two credential pairs of the configuration share a username.     *)
(***************************************************************************)
C13_UniqueUsernames ==
    \A i, j \in 1..Len(config.users) :
        i # j => config.users[i][1] # config.users[j][1]

(***************************************************************************)
(* C14: a run whose directory was given and does not exist has ended, has  *)
(* run no pre-connection command and has made no connect, forward request  *)
(* or spawn.                                                               *)
(***************************************************************************)
C14_MissingDirectoryIsFatalFirst ==
    dir_missing =>
        /\ pc = "exited"
        /\ cmd_log = <<>>
        /\ log = <<>>
        /\ session = "none"
        /\ proc_os = "none"

C14_Witness ==
    /\ dir_missing
    /\ pc = "exited"
    /\ config.num_cmds > 0

(***************************************************************************)
(* C15: the digest pushed for a user is the digest of that user's password *)
(* alone, whatever was entered before in the same add_users call; and      *)
(* every digest of the configuration is the digest of one password.        *)
(***************************************************************************)
C15_DigestFromPasswordOnly ==
    /\ [][(pc = "add_user_push" /\ pc' # pc) =>
            LET all == IF pc' = "forward" THEN config'.users ELSE new_users' IN
              all[Len(all)] = <<cur_entry[1], DigestOf(cur_entry[2])>>]_vars
    /\ [](\A i \in 1..Len(config.users) :
            \E pw \in Passwords : config.users[i][2] = DigestOf(pw))

C15_Witness ==
    /\ pc = "add_user_push"
    /\ Len(new_users) = 1
    /\ new_users[1][2] = DigestOf("p")
    /\ cur_entry[2] = "p"
    /\ HasherHex(hasher) = DigestOf("p")

(***************************************************************************)
(* C16 (as stated): whenever the latest poll found miniserve exited, with  *)
(* any status, or failed, the serve line shows a warning.                  *)
(***************************************************************************)
C16_EveryExitWarned ==
    (Monitoring /\ last_poll \in BadPolls) =>
        pb_serve \in {"warn_exited", "warn_died"}

(***************************************************************************)
(* C16 (amended): the serve line shows a warning exactly when a poll found *)
(* miniserve exited with a status that is not success, or failed; an exit  *)
(* with status success is not shown as a warning.                          *)
(***************************************************************************)
C16_NonSuccessExitWarned ==
    /\ last_poll = "exited_err" => pb_serve = "warn_exited"
    /\ last_poll = "poll_err" => pb_serve = "warn_died"
    /\ last_poll \in {"none", "running", "exited_ok"} =>
           pb_serve \in {"none", "serving"}

C16_Witness ==
    /\ Monitoring
    /\ last_poll = "exited_ok"
    /\ pb_serve = "serving"

(***************************************************************************)
(* C17: the monitor loop begins at most one sleep with the flag set, and a *)
(* read of the flag that finds it set leaves the loop without sleeping.    *)
(***************************************************************************)
C17_CancellationWithinOneSleep ==
    /\ [](sleeps_after_set <= 1)
    /\ [][(pc = "mon_flag" /\ should_end /\ pc' # pc) => pc' = "close_enter"]_vars

C17_Witness ==
    /\ sleeps_after_set = 1
    /\ end_set_in = "monitor"
    /\ pc = "close_enter"

(***************************************************************************)
(* C18: when the flag was set during setup, shutdown starts only after     *)
(* connect, forward request and spawn have succeeded and the first         *)
(* iteration of the monitor loop has polled, before any sleep; and the run *)
(* ends earlier only by a failure of setup.                                *)
(***************************************************************************)
C18_FlagInSetupDoesNotAbort ==
    /\ (end_set_in = "setup" /\ (Closing \/ pc = "closed")) =>
          /\ OkCalls("connect") # {}
          /\ OkCalls("forward") # {}
          /\ OkCalls("spawn") # {}
          /\ last_poll # "none"
    /\ end_set_in = "setup" => sleeps_after_set = 0
    /\ (end_set_in = "setup" /\ pc = "panicked") =>
          (log = <<>> \/ log[Len(log)][2] = "err")
    /\ (end_set_in = "setup" /\ pc = "exited") => dir_missing

C18_Witness ==
    /\ end_set_in = "setup"
    /\ pc = "close_enter"
    /\ proc_os = "running"

(***************************************************************************)
(* C19: miniserve is given, in secure mode, one -a parameter per           *)
(* credential pair of the configuration, username:sha512:digest, in list   *)
(* order; and none when secure mode is off.                                *)
(***************************************************************************)
C19_AuthArgsMatchSecureMode ==
    /\ Calls("spawn") = {} => miniserve_args = <<>>
    /\ (Calls("spawn") # {} /\ ~secure) => miniserve_args = <<>>
    /\ (Calls("spawn") # {} /\ secure) =>
          /\ Len(miniserve_args) = Len(config.users)
          /\ \A i \in 1..Len(config.users) :
                miniserve_args[i] = AuthParam(config.users[i])

C19_Witness ==
    /\ secure
    /\ proc_os = "running"
    /\ miniserve_args = <<"a:sha512:h(p)", "b:sha512:h(q)">>

(***************************************************************************)
(* C20: once the host check of new() is passed, the configuration has a    *)
(* host that is not empty: no pre-connection command runs and no connect   *)
(* is attempted with an empty host.                                        *)
(***************************************************************************)
C20_ConnectHostNonEmpty ==
    /\ (pc \notin {"new", "host_check"} /\ ~(pc = "panicked" /\ log = <<>>))
          => config.host # ""
    /\ (cmd_log # <<>> \/ Calls("connect") # {}) => config.host # ""

C20_Witness ==
    /\ OkCalls("connect") # {}
    /\ config.host = "example.org"

(***************************************************************************)
(* C21: the flag starts false, is set exactly when the handler has run or  *)
(* the monitor loop has found the session dead, and no step resets it; a   *)
(* read of the flag by the monitor loop after it was set finds it set and  *)
(* leaves the loop.                                                        *)
(***************************************************************************)
C21_FlagMonotonic ==
    /\ [](pc = "new" /\ ~sigint => ~should_end)
    /\ [](should_end <=> (sigint \/ pb_forward = "warn_died"))
    /\ [](should_end <=> end_set_in # "none")
    /\ [][should_end => should_end']_vars
    /\ [][(pc = "mon_flag" /\ end_set_in # "none" /\ pc' # pc)
             => pc' = "close_enter"]_vars

C21_Witness ==
    /\ sigint
    /\ pb_forward = "warn_died"
    /\ end_set_in = "setup"
    /\ should_end
    /\ pc = "mon_flag"

(***************************************************************************)
(* C22: in the monitor loop the session check is followed by the poll of   *)
(* miniserve and the poll by the read of the flag, whatever either finds;  *)
(* and the only step that leaves the loop is the read of the flag that     *)
(* finds it set.                                                           *)
(***************************************************************************)
C22_LoopExitsOnlyThroughFlag ==
    /\ [][(pc = "mon_check" /\ pc' # pc) => pc' = "mon_poll"]_vars
    /\ [][(pc = "mon_poll" /\ pc' # pc) => pc' = "mon_flag"]_vars
    /\ [][(Monitoring /\ ~Monitoring')
             => (pc = "mon_flag" /\ should_end /\ pc' = "close_enter")]_vars
    /\ []((pc = "mon_flag" \/ Closing \/ pc = "closed") => last_poll # "none")

C22_Witness ==
    /\ pc = "close_enter"
    /\ pb_forward = "warn_died"
    /\ ~sigint
    /\ last_poll \in BadPolls
    /\ sleeps_after_set = 0

====
